---------------------------- MODULE Spec2Model ----------------------------
(***************************************************************************)
(* A model of the concurrent crawl engine of see-why/Crawler: the visit    *)
(* task (config.crawlPage), the page registry (config.addPageVisit), the   *)
(* retry executor (config.retryWithBackoff), the host circuit breaker      *)
(* (incrementHostError / shouldSkipHost) and the run controller (main).    *)
(*                                                                         *)
(* A raw URL is a record of the parts url.Parse splits it into.  A host is *)
(* the sequence of its dot-separated labels and a path the sequence of its *)
(* slash-separated segments, so that "/a/" is <<"a", "">> and "/" is       *)
(* <<"">>.  The live goroutines running crawlPage are a bag of task        *)
(* records; a goroutine that has returned is no longer in the bag.         *)
(***************************************************************************)
EXTENDS Integers, Sequences, FiniteSets, Bags, TLC

(***************************************************************************)
(* Bounds of the model: the ranges the run's configuration is drawn from.  *)
(***************************************************************************)
MaxConcurrencyBound == 2
MaxPagesBound == 2
MaxBatchBound == 2
MaxWWW == 2
MaxSlashes == 2
MaxCallers == 3

(***************************************************************************)
(* Program constants.                                                      *)
(***************************************************************************)
maxRetries == 3
maxErrorsPerHost == 10
maxURLsPerPage == 1000
maxTraversalDepth == 50

Min(a, b) == IF a < b THEN a ELSE b

(***************************************************************************)
(* URLs.                                                                   *)
(***************************************************************************)
URL(scheme, host, path) ==
    [ok |-> TRUE, scheme |-> scheme, host |-> host, path |-> path,
     query |-> "", frag |-> ""]

\* url.Parse succeeded.
ParseOK(u) == u.ok

\* u.Hostname(): the host as written, no case folding, no www stripping.
Hostname(u) == u.host

\* strings.TrimPrefix(host, "www.")
TrimWWW(h) == IF Len(h) > 1 /\ Head(h) = "www" THEN Tail(h) ELSE h

\* A faulty trim, which leaves the path as it is.
TrimSlashNever(p) == p

\* strings.TrimSuffix(path, "/"): exactly one trailing slash goes.
TrimSlash(p) ==
    IF Len(p) > 0 /\ p[Len(p)] = "" THEN SubSeq(p, 1, Len(p) - 1) ELSE p

\* normalizeURL: host without "www." followed by the path without one
\* trailing slash; scheme, query and fragment are dropped.
normalizeURL(u) == [host |-> TrimWWW(Hostname(u)), path |-> TrimSlash(u.path)]

(***************************************************************************)
(* The web the run crawls.  Every scenario has the same seed.              *)
(***************************************************************************)
XCom == <<"x", "com">>
Seed == URL("https", XCom, <<>>)
PageA == URL("https", XCom, <<"a">>)
PageASlash == URL("https", XCom, <<"a", "">>)
PageB == URL("https", XCom, <<"b">>)
ExtE == URL("https", <<"ext", "com">>, <<"p">>)
WwwA == URL("https", <<"www">> \o XCom, <<"a">>)

\* The pages of scenario "breaker" that never answer.
FailingPaths == maxErrorsPerHost - 1
Failing(n) == URL("https", XCom, <<"f", ToString(n)>>)
FailingPages == {Failing(n) : n \in 1..FailingPaths}

\* The key no page has: the parent of the seed task.
NoKey == [host |-> <<>>, path |-> <<>>]

\* The anchors of a page, in document order, as hrefs: an absolute URL, the
\* empty href, or one the extractor skips ("#", mailto:, an unparsable one).
\* An anchor also has its depth in the tree html.Parse builds, the
\* document node at depth 0: an anchor that is a child of body is at 3.
Abs(u) == [kind |-> "abs", url |-> u, depth |-> 3]
EmptyHref == [kind |-> "empty", url |-> Seed, depth |-> 3]
SkipHref == [kind |-> "skip", url |-> Seed, depth |-> 3]

\* An href of one of the kinds the extractor names ("hash" for "#"), an
\* anchor without href, an href that is an absolute path or only a
\* fragment, and one url.Parse refuses.
Href(kind) == [kind |-> kind, url |-> Seed, depth |-> 3]
Rel(p) == [kind |-> "rel", url |-> URL("", <<>>, p), depth |-> 3]
Frag(f) == [kind |-> "frag", url |-> [Seed EXCEPT !.frag = f], depth |-> 3]
BadHref == [kind |-> "abs", url |-> [Seed EXCEPT !.ok = FALSE], depth |-> 3]

\* The same anchor below more elements than traverse descends.
Deep(h) == [h EXCEPT !.depth = maxTraversalDepth + 1]

\* Scenario "small": the seed links to /a three times, twice in these
\* letters and once as /a/, and /a links off the domain.  Scenario "ext": the
\* seed and /a both link to the same URL off the domain, and /a to /a/.
\* Scenario "breaker": the seed links to nine pages that never answer, then
\* to /b, which never answers either, and to /a, which links off the domain.
\* Scenario "drain": the seed links to /a and off the domain.  Scenario
\* "dup": the seed links to /a, to /b and to /a again; /a links off the
\* domain and /b answers 404, which the fetcher does not class retryable.
\* Scenario "faults": the seed links to /a, whose body html.Parse refuses,
\* to itself and off the domain.  Scenario "www": the seed links to /a on
\* the host www.x.com and to /a on its own host.
Html(s, u) ==
    LET k == normalizeURL(u)
    IN  CASE s = "small" /\ k = normalizeURL(Seed) ->
               <<Abs(PageA), SkipHref, Abs(PageASlash), Abs(PageA)>>
          [] s = "small" /\ k = normalizeURL(PageA) -> <<Abs(ExtE)>>
          [] s = "ext" /\ k = normalizeURL(Seed) ->
               <<Abs(PageA), SkipHref, Abs(ExtE), Abs(PageA)>>
          [] s = "ext" /\ k = normalizeURL(PageA) -> <<Abs(ExtE), Abs(PageASlash)>>
          [] s = "drain" /\ k = normalizeURL(Seed) -> <<Abs(PageA), Abs(ExtE)>>
          [] s = "dup" /\ k = normalizeURL(Seed) -> <<Abs(PageA), Abs(PageB), Abs(PageA)>>
          [] s = "dup" /\ k = normalizeURL(PageA) -> <<Abs(ExtE)>>
          [] s = "faults" /\ k = normalizeURL(Seed) ->
               <<Abs(PageA), Abs(Seed), Abs(ExtE)>>
          [] s = "www" /\ k = normalizeURL(Seed) -> <<Abs(WwwA), Abs(PageA)>>
          [] s = "breaker" /\ k = normalizeURL(Seed) ->
               [n \in 1..FailingPaths |-> Abs(Failing(n))] \o <<Abs(PageB), Abs(PageA)>>
          [] s = "breaker" /\ k = normalizeURL(PageA) -> <<Abs(ExtE)>>
          [] OTHER -> <<>>

\* html.Parse returns an error on the body of the page.
ParseFails(s, u) == s = "faults" /\ normalizeURL(u) = normalizeURL(PageA)

\* What one call of the fetch operation may return for a URL: the body
\* ("ok"), an error of the classes isRetryableError knows, returned after
\* the fetcher's own retries ("err"), or any other error, returned after
\* one request ("terminal").
Outcomes(s, u) ==
    LET k == normalizeURL(u)
    IN  CASE k = normalizeURL(Seed) -> {"ok", "err"}
          [] s = "small" /\ k = normalizeURL(PageA) -> {"ok", "err"}
          [] s = "ext" /\ k = normalizeURL(PageA) -> {"ok"}
          [] s = "breaker" /\ k = normalizeURL(PageA) -> {"ok", "err"}
          [] s = "drain" /\ k = normalizeURL(PageA) -> {"ok", "err"}
          [] s = "dup" /\ k = normalizeURL(PageA) -> {"ok"}
          [] s = "dup" /\ k = normalizeURL(PageB) -> {"terminal"}
          [] s = "faults" /\ k = normalizeURL(PageA) -> {"ok"}
          [] s = "www" /\ k = normalizeURL(PageA) -> {"ok"}
          [] OTHER -> {"err"}

(***************************************************************************)
(* getURLsFromHTML: the resolved hrefs in document order, each once, at    *)
(* most maxURLsPerPage of them.                                            *)
(***************************************************************************)
\* base.ResolveReference(parsed).  An empty reference gives the base as it
\* is, an absolute path takes scheme and host of the base, a fragment
\* replaces the fragment of the base.
ResolveReference(base, href) ==
    CASE href.kind = "empty" -> base
      [] href.kind = "rel" -> [href.url EXCEPT !.scheme = base.scheme, !.host = base.host]
      [] href.kind = "frag" -> [base EXCEPT !.frag = href.url.frag]
      [] OTHER -> href.url

\* A faulty traversal, which descends to any depth.
SkippedAnyDepth(h) ==
    h.kind \in {"skip", "hash", "mailto", "tel", "javascript", "data", "nohref"}
    \/ ~ParseOK(h.url)

\* The anchors that add nothing: those traverse does not reach, those
\* without href, the hrefs named in the else-if, and those url.Parse
\* refuses.
SkippedKinds == {"skip", "hash", "mailto", "tel", "javascript", "data", "nohref"}
Skipped(h) ==
    h.depth > maxTraversalDepth \/ h.kind \in SkippedKinds \/ ~ParseOK(h.url)

\* A faulty traversal, which lists a URL as often as the page links to it.
RECURSIVE TraverseKeepAll(_, _, _)
TraverseKeepAll(hrefs, base, urls) ==
    IF hrefs = <<>> \/ Len(urls) >= maxURLsPerPage THEN urls
    ELSE LET h == Head(hrefs)
         IN  IF Skipped(h)
             THEN TraverseKeepAll(Tail(hrefs), base, urls)
             ELSE TraverseKeepAll(Tail(hrefs), base, Append(urls, ResolveReference(base, h)))

\* A faulty test, which never finds the set full.
FullNever(urls) == Len(urls) < 0

\* len(urlSet) >= maxURLsPerPage
Full(urls) == Len(urls) >= maxURLsPerPage

\* traverse at an anchor: the resolved href is appended unless the anchor
\* adds nothing or urlSet has the URL already.
Visit(h, base, urls) ==
    LET r == ResolveReference(base, h)
    IN  IF Skipped(h) \/ \E k \in 1..Len(urls) : urls[k] = r
        THEN urls
        ELSE Append(urls, r)

\* traverse over a tree whose anchors are hrefs in document order: nothing
\* more once the set is full; else the first subtree, then the second
\* with what the first has found.
RECURSIVE Traverse(_, _, _)
Traverse(hrefs, base, urls) ==
    IF hrefs = <<>> \/ Full(urls) THEN urls
    ELSE IF Len(hrefs) = 1 THEN Visit(hrefs[1], base, urls)
    ELSE LET mid == Len(hrefs) \div 2
         IN  Traverse(SubSeq(hrefs, mid + 1, Len(hrefs)), base,
                      Traverse(SubSeq(hrefs, 1, mid), base, urls))

getURLsFromHTML(hrefs, base) == Traverse(hrefs, base, <<>>)

\* urls[:maxURLsPerPage] when the list is longer than the cap.
CapURLs(urls) ==
    IF Len(urls) > maxURLsPerPage THEN SubSeq(urls, 1, maxURLsPerPage) ELSE urls

(***************************************************************************)
(* State.                                                                  *)
(***************************************************************************)
VARIABLES
    scen,            \* the web being crawled
    maxPages,        \* cfg.maxPages
    maxConcurrency,  \* cap(cfg.concurrencyControl)
    batchSize,       \* cfg.batchSize
    pages,           \* cfg.pages: normalized URL -> count
    externalLinks,   \* cfg.externalLinks: raw URL -> count
    hostErrors,      \* cfg.hostErrors: host -> failure count
    totalRequests,   \* *cfg.totalRequests
    failedRequests,  \* *cfg.failedRequests
    sem,             \* len(cfg.concurrencyControl): slots held
    wg,              \* the counter of cfg.wg
    cancelled,       \* cfg.ctx is done
    done,            \* the done channel is closed
    pcMain,          \* where main is
    outcome,         \* the case main's select took
    tasks,           \* the live crawlPage goroutines
    fetchInit,       \* history: normalized URL -> fetches initiated
    discovered,      \* history: raw URL -> times extracted as a link
    opCalls,         \* history: calls of the fetch operation so far
    visits,          \* history: normalized URL -> calls of addPageVisit
    fetchedOK,       \* history: the normalized URLs whose fetch succeeded
    scheduled,       \* history: the crawlPage goroutines started so far
    args,            \* the arguments of a function called on its own
    rets,            \* what it returned
    mu               \* cfg.mu: the caller that holds it, 0 when it is free

\* What no step of a run changes: the configuration, the call of a
\* function on its own, of which a run has none, and cfg.mu, which is free
\* between the steps of a run, each step holding a critical section whole.
cfgVars == <<scen, maxPages, maxConcurrency, batchSize, args, rets, mu>>
regVars == <<pages, externalLinks, hostErrors, totalRequests, failedRequests>>
ctlVars == <<done, pcMain, outcome>>
histVars == <<fetchInit, discovered, opCalls, visits, fetchedOK, scheduled>>
vars == <<cfgVars, regVars, ctlVars, histVars, sem, wg, cancelled, tasks>>

\* A map read the way Go reads one: the zero value for a missing key.
Get(m, k) == IF k \in DOMAIN m THEN m[k] ELSE 0
Put(m, k, v) == [x \in DOMAIN m \cup {k} |-> IF x = k THEN v ELSE m[x]]
EmptyMap == [x \in {} |-> 0]

NewTask(u, parent) ==
    [url |-> u, parent |-> parent, pc |-> "start", visit |-> "none", dead |-> FALSE,
     attempt |-> 0, calls |-> 0,
     waits |-> 0, lastErr |-> -1, opErr |-> -1, res |-> "none", wraps |-> -1,
     termAt |-> 0, stats |-> 0, fails |-> 0, herrs |-> 0,
     spawned |-> <<>>, adds |-> 0, undone |-> 0, stopped |-> FALSE,
     urls |-> <<>>, i |-> 0, j |-> 0]

\* History: the task has called incrementStats(failed), and
\* incrementHostError if herr.
Counted(t, failed, herr) ==
    [t EXCEPT !.stats = t.stats + 1,
              !.fails = t.fails + (IF failed THEN 1 ELSE 0),
              !.herrs = t.herrs + (IF herr THEN 1 ELSE 0)]

Live == BagToSet(tasks)
Swap(t, t2) == (tasks (-) SetToBag({t})) (+) SetToBag({t2})
Drop(t) == tasks (-) SetToBag({t})

\* main, up to the two goroutines it starts and the select it blocks in.
Construct(s, mp, mc, bs) ==
    /\ scen = s /\ maxPages = mp /\ maxConcurrency = mc /\ batchSize = bs
    /\ args = <<>> /\ rets = <<>> /\ mu = 0
    /\ pages = EmptyMap /\ externalLinks = EmptyMap /\ hostErrors = EmptyMap
    /\ totalRequests = 0 /\ failedRequests = 0
    /\ sem = 0 /\ wg = 1
    /\ cancelled = FALSE /\ done = FALSE
    /\ pcMain = "select" /\ outcome = "none"
    /\ tasks = SetToBag({NewTask(Seed, NoKey)})
    /\ fetchInit = EmptyMap /\ discovered = EmptyMap /\ opCalls = 0
    /\ visits = EmptyMap /\ fetchedOK = {} /\ scheduled = 1

Configured(s) ==
    \E mp \in 1..MaxPagesBound, mc \in 1..MaxConcurrencyBound, bs \in 1..MaxBatchBound :
        Construct(s, mp, mc, bs)

Init == Configured("small")
InitExt == Configured("ext")
InitDrain == Configured("drain")
InitFaults == Configured("faults")
InitWww == Configured("www")
InitDup ==
    \E mp \in 1..MaxPagesBound, mc \in 1..MaxConcurrencyBound, bs \in 1..MaxBatchBound :
        Construct("dup", 1 + mp, mc, bs)

\* A run on scenario "breaker" at the point where the seed has been fetched
\* and its task has spawned its eleven links and returned, the nine tasks
\* of the pages that never answer have each run through their four calls
\* and returned, and the tasks of /b and /a have not yet been scheduled.
\* Every step up to here is a step of Next from Construct("breaker", ...);
\* the run starts here to keep the nine failed crawls out of the search.
AfterNineFailures(mp, mc, bs) ==
    LET fetched == {normalizeURL(Seed)} \cup {normalizeURL(f) : f \in FailingPages}
        links == getURLsFromHTML(Html("breaker", Seed), Seed)
    IN  /\ scen = "breaker" /\ maxPages = mp /\ maxConcurrency = mc /\ batchSize = bs
        /\ args = <<>> /\ rets = <<>> /\ mu = 0
        /\ pages = [k \in fetched |-> 1]
        /\ externalLinks = EmptyMap
        /\ hostErrors = Put(EmptyMap, XCom, FailingPaths)
        /\ totalRequests = 1 + FailingPaths /\ failedRequests = FailingPaths
        /\ sem = 0 /\ wg = 2
        /\ cancelled = FALSE /\ done = FALSE
        /\ pcMain = "select" /\ outcome = "none"
        /\ tasks = SetToBag({NewTask(PageB, normalizeURL(Seed)),
                             NewTask(PageA, normalizeURL(Seed))})
        /\ fetchInit = [k \in fetched |-> 1]
        /\ visits = [k \in fetched |-> 1]
        /\ fetchedOK = {normalizeURL(Seed)}
        /\ discovered = [raw \in {links[n] : n \in DOMAIN links} |-> 1]
        /\ opCalls = 1 + FailingPaths * (maxRetries + 1)
        /\ scheduled = 1 + Len(links)

InitBreaker ==
    \E mp \in 1..MaxPagesBound, mc \in 1..MaxConcurrencyBound, bs \in 1..MaxBatchBound :
        AfterNineFailures(1 + FailingPaths + mp, mc, bs)

\* The earlier addPageVisit, which tests the ceiling before it looks the
\* URL up.
addPageVisitCeilingFirst(pg, key, limit) ==
    IF Cardinality(DOMAIN pg) >= limit
    THEN [pages |-> pg, isFirst |-> FALSE, exceedsLimit |-> TRUE]
    ELSE IF key \in DOMAIN pg
    THEN [pages |-> Put(pg, key, pg[key] + 1), isFirst |-> FALSE, exceedsLimit |-> FALSE]
    ELSE [pages |-> Put(pg, key, 1), isFirst |-> TRUE, exceedsLimit |-> FALSE]

(***************************************************************************)
(* The registries and the circuit breaker.                                 *)
(***************************************************************************)
\* Faulty registries, which the properties below must tell from the real
\* one: without the ceiling test, and telling every visitor it is first.
addPageVisitNoLimit(pg, key, limit) ==
    IF key \in DOMAIN pg
    THEN [pages |-> Put(pg, key, pg[key] + 1), isFirst |-> FALSE, exceedsLimit |-> FALSE]
    ELSE [pages |-> Put(pg, key, 1), isFirst |-> TRUE, exceedsLimit |-> FALSE]

addPageVisitAlwaysFirst(pg, key, limit) ==
    IF key \in DOMAIN pg
    THEN [pages |-> Put(pg, key, pg[key] + 1), isFirst |-> TRUE, exceedsLimit |-> FALSE]
    ELSE IF Cardinality(DOMAIN pg) >= limit
    THEN [pages |-> pg, isFirst |-> FALSE, exceedsLimit |-> TRUE]
    ELSE [pages |-> Put(pg, key, 1), isFirst |-> TRUE, exceedsLimit |-> FALSE]

\* config.addPageVisit, under cfg.mu: the registry afterwards and the two
\* results.
addPageVisit(pg, key, limit) ==
    IF key \in DOMAIN pg
    THEN [pages |-> Put(pg, key, pg[key] + 1), isFirst |-> FALSE, exceedsLimit |-> FALSE]
    ELSE IF Cardinality(DOMAIN pg) >= limit
    THEN [pages |-> pg, isFirst |-> FALSE, exceedsLimit |-> TRUE]
    ELSE [pages |-> Put(pg, key, 1), isFirst |-> TRUE, exceedsLimit |-> FALSE]

\* A faulty ceiling test, which lets one page too many in.
AtCeilingOnePast(pg, limit) == Cardinality(DOMAIN pg) > limit

\* len(cfg.pages) >= cfg.maxPages
AtCeiling(pg, limit) == Cardinality(DOMAIN pg) >= limit

\* A faulty mutex, which lets every caller in.
CanLockAlways(holder) == TRUE

\* cfg.mu.Lock() blocks while another caller holds the mutex.
CanLock(holder) == holder = 0

\* A faulty breaker, which starts the count of a host anew when it trips.
incrementHostErrorHalfOpen(he, host) ==
    Put(he, host, IF Get(he, host) + 1 >= maxErrorsPerHost THEN 0 ELSE Get(he, host) + 1)

\* config.incrementHostError
\* A faulty incrementHostError, which counts a failure twice.
incrementHostErrorTwice(he, host) == Put(he, host, Get(he, host) + 2)

incrementHostError(he, host) == Put(he, host, Get(he, host) + 1)

\* config.shouldSkipHost
\* A faulty breaker, which trips at the first failure of a host.
shouldSkipHostAtFirst(he, host) == host \in DOMAIN he

\* A faulty breaker, which never trips.
shouldSkipHostNever(he, host) == FALSE

shouldSkipHost(he, host) == host \in DOMAIN he /\ he[host] >= maxErrorsPerHost

\* config.incrementStats
\* A faulty incrementStats, which counts a failure and no request.
incrementStatsFailedOnly(failed) ==
    /\ totalRequests' = totalRequests
    /\ failedRequests' = IF failed THEN failedRequests + 1 ELSE failedRequests

incrementStats(failed) ==
    /\ totalRequests' = totalRequests + 1
    /\ failedRequests' = IF failed THEN failedRequests + 1 ELSE failedRequests

\* A faulty admission: a send that never blocks.
CanSendAlways(held, capacity) == TRUE

\* A faulty semaphore: a channel without buffer, on which nobody receives
\* before a send.
CanSendUnbuffered(held, capacity) == FALSE

\* cfg.concurrencyControl <- struct{}{} blocks while the channel is full.
CanSend(held, capacity) == held < capacity

\* A faulty loop test, which lets one attempt too many through.
MoreAttemptsOneTooMany(attempt) == attempt <= maxRetries

\* The loop test of retryWithBackoff after attempt++: one more attempt.
MoreAttempts(attempt) == attempt + 1 <= maxRetries

\* A faulty entry check, which returns without cfg.wg.Done().
wgDoneAtEntryMissing(n) == n

\* A faulty entry check, which counts the task done twice.
wgDoneAtEntryTwice(n) == n - 2

\* A faulty crawlPage, which goes on to the spawn loop when the extraction
\* has failed.
AfterExtractErrSpawn == "spawnAdd"

\* if err != nil { fmt.Printf(...); return } after getURLsFromHTML.
AfterExtractErr == "release"

\* A faulty backoff, which waits on the timer alone.
ctxDoneNever(c) == FALSE

\* case <-cfg.ctx.Done() of the select of retryWithBackoff.
ctxDone(c) == c

\* A faulty deferred function, which keeps the slot.
semReleaseMissing(n) == n

\* <-cfg.concurrencyControl in the deferred function.
semRelease(n) == n - 1

\* A parent that spawns a child without registering it.
wgAddMissing(n) == n

\* cfg.wg.Add(1) before the go statement.
wgAdd(n) == n + 1

\* A faulty spawn loop, which leaves the child it did not spawn registered.
wgDoneAtSpawnMissing(n) == n

\* cfg.wg.Done() of the spawn loop, when cfg.ctx is done.
wgDoneAtSpawn(n) == n - 1

\* cfg.wg.Done() of the entry check: "we're not doing any work".
wgDoneAtEntry(n) == n - 1

(***************************************************************************)
(* config.crawlPage, one action per access to shared state.                *)
(***************************************************************************)
\* The entry check of cfg.ctx.
TaskStart(t) ==
    /\ t.pc = "start"
    /\ IF cancelled
       THEN wg' = wgDoneAtEntry(wg) /\ tasks' = Drop(t)
       ELSE wg' = wg /\ tasks' = Swap(t, [t EXCEPT !.pc = "acquire"])
    /\ UNCHANGED <<cfgVars, regVars, ctlVars, histVars, sem, cancelled>>

\* The send on cfg.concurrencyControl.
Acquire(t) ==
    /\ t.pc = "acquire"
    /\ CanSend(sem, maxConcurrency)
    /\ sem' = sem + 1
    /\ tasks' = Swap(t, [t EXCEPT !.pc = "check"])
    /\ UNCHANGED <<cfgVars, regVars, ctlVars, histVars, wg, cancelled>>

\* A faulty domain test: every URL taken for one of the seed's domain.
SameDomainAlways(u) == TRUE

\* A faulty domain test, which compares the hosts without their "www.".
SameDomainNormalized(u) == TrimWWW(Hostname(u)) = TrimWWW(Hostname(Seed))

\* currentURL.Hostname() == cfg.baseURL.Hostname()
SameDomain(u) == Hostname(u) = Hostname(Seed)

\* url.Parse, the circuit breaker and the domain test.
Check(t) ==
    /\ t.pc = "check"
    /\ IF ~ParseOK(t.url) \/ shouldSkipHost(hostErrors, Hostname(t.url))
       THEN /\ incrementStats(TRUE)
            /\ tasks' = Swap(t, [Counted(t, TRUE, FALSE) EXCEPT !.pc = "release"])
       ELSE /\ UNCHANGED <<totalRequests, failedRequests>>
            /\ tasks' = Swap(t, [t EXCEPT !.pc =
                   IF ~SameDomain(t.url) THEN "external" ELSE "register"])
    /\ UNCHANGED <<cfgVars, pages, externalLinks, hostErrors, ctlVars, histVars,
                   sem, wg, cancelled>>

\* A faulty count: the entry set to 1 instead of incremented.
countExternalOnce(ext, raw) == Put(ext, raw, 1)

\* cfg.externalLinks[rawCurrentURL]++
countExternal(ext, raw) == Put(ext, raw, Get(ext, raw) + 1)

\* cfg.pages and cfg.externalLinks are written under cfg.mu, which
\* printReport does not take: a write while main ranges over the maps is a
\* data race, which the runtime may let pass or end with the fatal error
\* "concurrent map iteration and map write".
MapWritten(written) ==
    IF written /\ pcMain = "report" THEN {"report", "crashed"} ELSE {pcMain}

\* The external link counted under cfg.mu.
External(t) ==
    /\ t.pc = "external"
    /\ externalLinks' = countExternal(externalLinks, t.url)
    /\ tasks' = Swap(t, [t EXCEPT !.pc = "release"])
    /\ pcMain' \in MapWritten(TRUE)
    /\ UNCHANGED <<cfgVars, pages, hostErrors, totalRequests, failedRequests,
                   done, outcome, histVars, sem, wg, cancelled>>

\* normalizeURL and addPageVisit; the first visitor of a page goes on into
\* retryWithBackoff, whose attempt 0 calls the fetch operation at once,
\* without a look at cfg.ctx.
Register(t) ==
    /\ t.pc = "register"
    /\ LET key == normalizeURL(t.url)
           r == addPageVisit(pages, key, maxPages)
       IN  IF ~ParseOK(t.url)
           THEN /\ incrementStats(TRUE)
                /\ hostErrors' = incrementHostError(hostErrors, Hostname(t.url))
                /\ tasks' = Swap(t, [Counted(t, TRUE, TRUE) EXCEPT !.pc = "release"])
                /\ UNCHANGED <<pages, histVars>>
           ELSE /\ pages' = r.pages
                /\ visits' = Put(visits, key, Get(visits, key) + 1)
                /\ UNCHANGED <<hostErrors, totalRequests, failedRequests, discovered,
                               fetchedOK, scheduled>>
                /\ IF r.exceedsLimit \/ ~r.isFirst
                   THEN /\ tasks' = Swap(t, [t EXCEPT !.pc = "release",
                               !.visit = IF r.exceedsLimit THEN "limit" ELSE "dup"])
                        /\ UNCHANGED <<fetchInit, opCalls>>
                   ELSE /\ tasks' = Swap(t, [t EXCEPT !.pc = "fetching", !.visit = "first",
                                             !.calls = 1, !.dead = cancelled])
                        /\ fetchInit' = Put(fetchInit, key, Get(fetchInit, key) + 1)
                        /\ opCalls' = opCalls + 1
    /\ pcMain' \in MapWritten(pages' /= pages)
    /\ UNCHANGED <<cfgVars, externalLinks, done, outcome, sem, wg, cancelled>>

\* One more discovery of every link of the list.
RECURSIVE CountLinks(_, _)
CountLinks(d, urls) ==
    IF urls = <<>> THEN d
    ELSE CountLinks(Put(d, Head(urls), Get(d, Head(urls)) + 1), Tail(urls))

\* What the call of the fetch operation a task is in may return: a request
\* made with a context that was done already fails.
Results(t) == IF t.dead THEN {"err"} ELSE Outcomes(scen, t.url)

\* History: the call of the operation that first returned an error the
\* fetcher does not class retryable.
TerminalAt(t, r) == IF r = "terminal" /\ t.termAt = 0 THEN t.calls ELSE t.termAt

\* The fetch operation returns to retryWithBackoff.  On success crawlPage
\* counts the request, extracts the links against cfg.baseURL and caps them;
\* on the last failure it counts the failure and the host error.
FetchReturn(t) ==
    /\ t.pc = "fetching"
    /\ \E r \in Results(t) :
         IF r = "ok"
         THEN LET urls == CapURLs(getURLsFromHTML(Html(scen, t.url), Seed))
                  c == Counted(t, FALSE, FALSE)
              IN  /\ incrementStats(FALSE)
                  /\ fetchedOK' = fetchedOK \cup {normalizeURL(t.url)}
                  /\ IF ParseFails(scen, t.url)
                     THEN /\ tasks' = Swap(t, [c EXCEPT !.res = "extractErr",
                                                !.pc = AfterExtractErr])
                          /\ UNCHANGED discovered
                     ELSE /\ discovered' = CountLinks(discovered, urls)
                          /\ tasks' = Swap(t, [c EXCEPT !.res = "ok", !.urls = urls,
                                 !.pc = IF urls = <<>> THEN "release" ELSE "spawnAdd"])
                  /\ UNCHANGED hostErrors
         ELSE IF MoreAttempts(t.attempt)
         THEN /\ tasks' = Swap(t, [t EXCEPT !.lastErr = t.attempt, !.opErr = t.attempt,
                                   !.termAt = TerminalAt(t, r),
                                   !.attempt = t.attempt + 1, !.pc = "backoff"])
              /\ UNCHANGED <<hostErrors, totalRequests, failedRequests, discovered,
                             fetchedOK>>
         ELSE /\ incrementStats(TRUE)
              /\ hostErrors' = incrementHostError(hostErrors, Hostname(t.url))
              /\ tasks' = Swap(t, [Counted(t, TRUE, TRUE) EXCEPT
                                   !.lastErr = t.attempt, !.opErr = t.attempt,
                                   !.termAt = TerminalAt(t, r),
                                   !.attempt = t.attempt + 1, !.res = "exhausted",
                                   !.wraps = t.attempt, !.pc = "release"])
              /\ UNCHANGED <<discovered, fetchedOK>>
    /\ UNCHANGED <<cfgVars, pages, externalLinks, ctlVars, fetchInit, opCalls,
                   visits, scheduled, sem, wg, cancelled>>

\* The select of retryWithBackoff before attempt 1, 2, 3: the context's
\* Done, or the delay over and the next call of the operation.
Backoff(t) ==
    /\ t.pc = "backoff"
    /\ IF ctxDone(cancelled)
       THEN /\ incrementStats(TRUE)
            /\ hostErrors' = incrementHostError(hostErrors, Hostname(t.url))
            /\ tasks' = Swap(t, [Counted(t, TRUE, TRUE) EXCEPT
                                 !.res = "ctx", !.pc = "release"])
            /\ UNCHANGED opCalls
       ELSE /\ tasks' = Swap(t, [t EXCEPT !.waits = t.waits + 1,
                                 !.calls = t.calls + 1, !.pc = "fetching"])
            /\ opCalls' = opCalls + 1
            /\ UNCHANGED <<hostErrors, totalRequests, failedRequests>>
    /\ UNCHANGED <<cfgVars, pages, externalLinks, ctlVars, fetchInit, discovered,
                   visits, fetchedOK, scheduled, sem, wg, cancelled>>

\* cfg.wg.Add(1) for urls[j].
SpawnAdd(t) ==
    /\ t.pc = "spawnAdd"
    /\ wg' = wgAdd(wg)
    /\ tasks' = Swap(t, [t EXCEPT !.pc = "spawnCheck", !.adds = t.adds + 1])
    /\ UNCHANGED <<cfgVars, regVars, ctlVars, histVars, sem, cancelled>>

\* Faulty loops, which end with the first batch.
NextLinkFirstBatch(t) ==
    LET end == Min(t.i + batchSize, Len(t.urls))
    IN  IF t.j + 1 < end THEN [t EXCEPT !.j = t.j + 1, !.pc = "spawnAdd"]
        ELSE [t EXCEPT !.pc = "release"]

\* The two nested loops of crawlPage after urls[j] is done: the next j of
\* the batch, the first of the next batch, or the end.
NextLink(t) ==
    LET end == Min(t.i + batchSize, Len(t.urls))
    IN  IF t.j + 1 < end THEN [t EXCEPT !.j = t.j + 1, !.pc = "spawnAdd"]
        ELSE IF t.i + batchSize < Len(t.urls)
        THEN [t EXCEPT !.i = t.i + batchSize, !.j = t.i + batchSize, !.pc = "spawnAdd"]
        ELSE [t EXCEPT !.pc = "release"]

\* The select on cfg.ctx before the go statement: cfg.wg.Done() and the
\* return, or the go statement and the next turn of the loops.
SpawnCheck(t) ==
    /\ t.pc = "spawnCheck"
    /\ IF cancelled
       THEN /\ wg' = wgDoneAtSpawn(wg)
            /\ tasks' = Swap(t, [t EXCEPT !.pc = "release", !.stopped = TRUE,
                                          !.undone = t.undone + 1])
            /\ UNCHANGED scheduled
       ELSE /\ wg' = wg
            /\ tasks' = Swap(t, NextLink([t EXCEPT !.spawned =
                                              Append(t.spawned, t.urls[t.j + 1])]))
                           (+) SetToBag({NewTask(t.urls[t.j + 1], normalizeURL(t.url))})
            /\ scheduled' = scheduled + 1
    /\ UNCHANGED <<cfgVars, regVars, ctlVars, fetchInit, discovered, opCalls, visits,
                   fetchedOK, sem, cancelled>>

\* The deferred function: the receive from cfg.concurrencyControl ...
Release(t) ==
    /\ t.pc = "release"
    /\ sem' = semRelease(sem)
    /\ tasks' = Swap(t, [t EXCEPT !.pc = "wgDone"])
    /\ UNCHANGED <<cfgVars, regVars, ctlVars, histVars, wg, cancelled>>

\* ... and cfg.wg.Done(), after which the goroutine is gone.
WgDone(t) ==
    /\ t.pc = "wgDone"
    /\ wg' = wg - 1
    /\ tasks' = Drop(t)
    /\ UNCHANGED <<cfgVars, regVars, ctlVars, histVars, sem, cancelled>>

(***************************************************************************)
(* main: the signal goroutine, the goroutine waiting on cfg.wg, the        *)
(* timer of timeoutCtx, the select, the sleep and the report.              *)
(***************************************************************************)
\* sig := <-sigChan; cancel().  Cancelling a context that is cancelled
\* already changes nothing.
Signal ==
    /\ ~cancelled
    /\ cancelled' = TRUE
    /\ UNCHANGED <<cfgVars, regVars, ctlVars, histVars, sem, wg, tasks>>

\* cfg.wg.Wait() returns and done is closed.
WaiterDone ==
    /\ ~done /\ wg = 0
    /\ done' = TRUE
    /\ UNCHANGED <<cfgVars, regVars, histVars, pcMain, outcome, sem, wg, cancelled, tasks>>

\* The select of main takes the case of done.
MainDone ==
    /\ pcMain = "select" /\ done
    /\ pcMain' = "stats" /\ outcome' = "done"
    /\ UNCHANGED <<cfgVars, regVars, histVars, done, sem, wg, cancelled, tasks>>

\* The select of main takes the case of timeoutCtx.Done(): the 10 minutes
\* are over, or ctx, its parent, is cancelled.  The timer may fire at any
\* moment main is in the select, and only the select looks at it.  main
\* then calls cancel().
MainTimeout ==
    /\ pcMain = "select"
    /\ cancelled' = TRUE
    /\ pcMain' = "sleep" /\ outcome' = "timeout"
    /\ UNCHANGED <<cfgVars, regVars, histVars, done, sem, wg, tasks>>

\* time.Sleep(2 * time.Second) is over.
SleepEnd ==
    /\ pcMain = "sleep"
    /\ pcMain' = "stats"
    /\ UNCHANGED <<cfgVars, regVars, histVars, done, outcome,
                   sem, wg, cancelled, tasks>>

\* printCrawlStatistics reads the counters and the sizes of the maps.
Statistics ==
    /\ pcMain = "stats"
    /\ pcMain' = "report"
    /\ UNCHANGED <<cfgVars, regVars, histVars, done, outcome,
                   sem, wg, cancelled, tasks>>

\* printReport has ranged over cfg.pages and cfg.externalLinks and printed.
Report ==
    /\ pcMain = "report"
    /\ pcMain' = "reported"
    /\ UNCHANGED <<cfgVars, regVars, histVars, done, outcome,
                   sem, wg, cancelled, tasks>>

TaskNext ==
    \E t \in Live :
        \/ TaskStart(t)
        \/ Acquire(t)
        \/ Check(t)
        \/ External(t)
        \/ Register(t)
        \/ FetchReturn(t)
        \/ Backoff(t)
        \/ SpawnAdd(t)
        \/ SpawnCheck(t)
        \/ Release(t)
        \/ WgDone(t)

MainNext ==
    Signal \/ WaiterDone \/ MainDone \/ MainTimeout \/ SleepEnd \/ Statistics \/ Report

Next == TaskNext \/ MainNext

Spec == Init /\ [][Next]_vars
SpecExt == InitExt /\ [][Next]_vars
SpecBreaker == InitBreaker /\ [][Next]_vars
SpecDup == InitDup /\ [][Next]_vars

\* Runs from construction, where no host has a counter yet, together with
\* runs in which the seed's host is one failure from tripping.
InitHosts == Init \/ InitBreaker
SpecHosts == InitHosts /\ [][Next]_vars

\* The goroutines of crawlPage are scheduled: while some task can take a
\* step, some task takes one, and a fetch in flight returns.
SpecFaults == InitFaults /\ [][Next]_vars
SpecWww == InitWww /\ [][Next]_vars
InitExits == InitFaults \/ InitBreaker
SpecExits == InitExits /\ [][Next]_vars
SpecFairTasks == InitDrain /\ [][Next]_vars /\ WF_vars(TaskNext)

(***************************************************************************)
(* Properties.                                                             *)
(***************************************************************************)
\* The tasks that hold a slot of cfg.concurrencyControl.
HoldsSlot(t) ==
    t.pc \in {"check", "external", "register", "fetching", "backoff",
              "spawnAdd", "spawnCheck", "release"}
SlotHolders == BagCardinality([t \in {x \in Live : HoldsSlot(x)} |-> tasks[t]])
Fetching == BagCardinality([t \in {x \in Live : x.pc = "fetching"} |-> tasks[t]])

\* Every task has returned.
Quiesced == tasks = EmptyBag /\ wg = 0

\* C1: in every reachable state, under any interleaving of the visit tasks,
\* the Page Registry holds at most maxPages distinct normalized URLs.
C1_PagesWithinLimit == Cardinality(DOMAIN pages) <= maxPages

\* C1 happens: the registry is full and a task of the seed's domain has been
\* turned away by addPageVisit.
C1_Witness ==
    /\ Cardinality(DOMAIN pages) = maxPages
    /\ \E t \in Live : t.visit = "limit" /\ normalizeURL(t.url) \notin DOMAIN pages

\* C2: the fetch of a page, the call made through retryWithBackoff, is
\* initiated at most once per distinct normalized URL, however many tasks
\* discover it and whether or not that fetch succeeded.
C2_FetchedAtMostOnce == \A k \in DOMAIN fetchInit : fetchInit[k] <= 1

\* C2 happens: the fetch of a page has failed, and a second task that
\* discovered the page has been through addPageVisit without fetching it.
C2_Witness ==
    \E t \in Live :
        /\ t.visit = "dup" /\ t.calls = 0
        /\ normalizeURL(t.url) = normalizeURL(PageA)
        /\ Get(fetchInit, normalizeURL(t.url)) = 1
        /\ Get(hostErrors, Hostname(t.url)) = 1

\* C4: the tasks holding an admission slot, and so the tasks fetching at the
\* same time, are never more than maxConcurrency.
C4_SlotsBounded ==
    /\ sem = SlotHolders
    /\ SlotHolders <= maxConcurrency
    /\ Fetching <= maxConcurrency

\* C4 happens: every slot is taken by a fetching task while another task
\* waits for one.
C4_Witness ==
    /\ Fetching = maxConcurrency
    /\ \E t \in Live : t.pc = "acquire"

\* Of a host other than the seed's, by the letters of the host.
OffDomain(u) == Hostname(u) /= Hostname(Seed)

\* C3, as amended: a URL whose host differs from the seed's is never fetched
\* and never taken to the Page Registry; the External Link Registry holds
\* such URLs only, the count of a raw URL never exceeds the number of fetched
\* pages whose extracted link list holds that exact URL, and equals it once
\* every task has returned in a run that was not cancelled.
C3_ExternalCounted ==
    /\ \A t \in Live : OffDomain(t.url) =>
          /\ t.visit = "none" /\ t.calls = 0
          /\ t.pc \in {"start", "acquire", "check", "external", "release", "wgDone"}
    /\ \A raw \in DOMAIN externalLinks :
          OffDomain(raw) /\ externalLinks[raw] <= Get(discovered, raw)
    /\ (Quiesced /\ ~cancelled) =>
          \A raw \in DOMAIN discovered :
              OffDomain(raw) => Get(externalLinks, raw) = discovered[raw]

\* C3 happens: a run that was not cancelled is over, and the URL off the
\* domain that two fetched pages link to is counted twice.
C3_Witness ==
    /\ Quiesced /\ ~cancelled /\ pcMain = "reported"
    /\ Get(discovered, ExtE) = 2 /\ Get(externalLinks, ExtE) = 2

\* C3 as stated: at the end of a run (the report is out and every task has
\* returned), the count of every raw URL off the domain is the number of
\* times it was discovered as a link.
C3_Original ==
    (pcMain = "reported" /\ Quiesced) =>
        \A raw \in DOMAIN discovered :
            OffDomain(raw) => Get(externalLinks, raw) = discovered[raw]

\* The fetches initiated so far to the pages of a host.
RECURSIVE SumOver(_, _)
SumOver(m, keys) ==
    IF keys = {} THEN 0
    ELSE LET k == CHOOSE x \in keys : TRUE IN m[k] + SumOver(m, keys \ {k})
FetchesTo(f, h) == SumOver(f, {k \in DOMAIN f : k.host = TrimWWW(h)})

\* C5: in no step is a fetch initiated to a host whose failure count has
\* already reached the circuit-breaker threshold.
C5_NoFetchOnceTripped ==
    [][\A h \in DOMAIN hostErrors :
          hostErrors[h] >= maxErrorsPerHost => FetchesTo(fetchInit', h) = FetchesTo(fetchInit, h)]_vars

C7_NoFetchAfterCancel == [][cancelled => fetchInit' = fetchInit]_vars

\* C8: when main reads the registries after the timeout and its grace
\* period, the counter of cfg.wg is zero.
C8_DrainedBeforeRead == (pcMain = "stats" /\ outcome = "timeout") => wg = 0

\* C9: main never ends before the statistics and the report are out.
C9_ReportNotLost == pcMain /= "crashed"

\* C10: retryWithBackoff calls the operation at most maxRetries + 1 times,
\* waits before every call but the first, makes no call after one that
\* succeeded, and after maxRetries + 1 failures returns an error that wraps
\* the error of the last call.
C10_RetryExecutor ==
    \A t \in Live :
        /\ t.calls <= maxRetries + 1
        /\ t.calls >= 1 => t.waits = t.calls - 1
        /\ t.res = "ok" => t.calls = t.attempt + 1 /\ t.pc \notin {"fetching", "backoff"}
        /\ t.res = "exhausted" =>
              /\ t.calls = maxRetries + 1
              /\ t.wraps = t.opErr /\ t.opErr = maxRetries

\* C10 happens: one call has failed maxRetries + 1 times, and another has
\* succeeded at its second attempt.
C10_Witness ==
    /\ \E t \in Live : t.res = "exhausted" /\ t.calls = maxRetries + 1 /\ t.waits = maxRetries
    /\ \E t \in Live : t.res = "ok" /\ t.calls = 2

(***************************************************************************)
(* normalizeURL called on its own, on two URLs at a time.                  *)
(***************************************************************************)
\* n labels "www" before a host, and n slashes after a path.
RECURSIVE WithWWW(_, _)
WithWWW(n, h) == IF n = 0 THEN h ELSE <<"www">> \o WithWWW(n - 1, h)
RECURSIVE WithSlashes(_, _)
WithSlashes(n, p) == IF n = 0 THEN p ELSE WithSlashes(n - 1, p) \o <<"">>

\* The URLs normalizeURL is called on: url.Parse keeps the letters of the
\* host as they are written.
RawURLs ==
    {[ok |-> TRUE, scheme |-> sc, host |-> WithWWW(w, h), path |-> WithSlashes(n, p),
      query |-> q, frag |-> f] :
        sc \in {"http", "https"}, w \in 0..MaxWWW, h \in {<<"ex", "com">>, <<"EX", "com">>},
        n \in 0..MaxSlashes, p \in {<<>>, <<"a">>}, q \in {"", "q=1"}, f \in {"", "s"}}

\* No run: the state of a program that only calls a function.
NoRun ==
    /\ scen = "none" /\ maxPages = 0 /\ maxConcurrency = 0 /\ batchSize = 0
    /\ pages = EmptyMap /\ externalLinks = EmptyMap /\ hostErrors = EmptyMap
    /\ totalRequests = 0 /\ failedRequests = 0
    /\ sem = 0 /\ wg = 0
    /\ cancelled = FALSE /\ done = FALSE
    /\ pcMain = "none" /\ outcome = "none"
    /\ tasks = EmptyBag
    /\ fetchInit = EmptyMap /\ discovered = EmptyMap /\ opCalls = 0
    /\ visits = EmptyMap /\ fetchedOK = {} /\ scheduled = 0

InitNormalize == NoRun /\ args \in RawURLs \X RawURLs /\ rets = <<>> /\ mu = 0

CallNormalize ==
    /\ rets = <<>>
    /\ rets' = <<normalizeURL(args[1]), normalizeURL(args[2])>>
    /\ UNCHANGED <<scen, maxPages, maxConcurrency, batchSize, args, mu, regVars,
                   ctlVars, histVars, sem, wg, cancelled, tasks>>

SpecNormalize == InitNormalize /\ [][CallNormalize]_vars

(***************************************************************************)
(* config.addPageVisit statement by statement, called by MaxCallers        *)
(* goroutines at once on a registry that holds some pages already.         *)
(***************************************************************************)
Keys == {normalizeURL(Seed), normalizeURL(PageA), normalizeURL(PageB)}

\* The registries a run can have built: some pages, no more than maxPages.
Registries(limit) ==
    UNION {[ks -> 1..2] : ks \in {x \in SUBSET Keys : Cardinality(x) <= limit}}

Caller(id, key) ==
    [id |-> id, key |-> key, pc |-> "lock", count |-> 0, snap |-> EmptyMap,
     after |-> EmptyMap, isFirst |-> FALSE, exceedsLimit |-> FALSE]

InitRegistry ==
    /\ scen = "none" /\ maxConcurrency = 0 /\ batchSize = 0
    /\ maxPages \in 1..MaxPagesBound
    /\ pages \in Registries(maxPages)
    /\ \E keys \in [1..MaxCallers -> Keys] :
          /\ tasks = SetToBag({Caller(id, keys[id]) : id \in 1..MaxCallers})
          /\ args = [registry |-> pages, keys |-> keys]
    /\ rets = <<>> /\ mu = 0
    /\ externalLinks = EmptyMap /\ hostErrors = EmptyMap
    /\ totalRequests = 0 /\ failedRequests = 0
    /\ sem = 0 /\ wg = 0
    /\ cancelled = FALSE /\ done = FALSE
    /\ pcMain = "none" /\ outcome = "none"
    /\ fetchInit = EmptyMap /\ discovered = EmptyMap /\ opCalls = 0
    /\ visits = EmptyMap /\ fetchedOK = {} /\ scheduled = 0

RegistryFrame ==
    UNCHANGED <<scen, maxPages, maxConcurrency, batchSize, args, rets, externalLinks,
                hostErrors, totalRequests, failedRequests, ctlVars, histVars,
                sem, wg, cancelled>>

\* cfg.mu.Lock()
Lock(c) ==
    /\ c.pc = "lock" /\ CanLock(mu)
    /\ mu' = c.id
    /\ tasks' = Swap(c, [c EXCEPT !.pc = "lookup", !.snap = pages])
    /\ UNCHANGED pages /\ RegistryFrame

\* count, exists := cfg.pages[normalizedURL]; if exists
Lookup(c) ==
    /\ c.pc = "lookup"
    /\ tasks' = Swap(c, [c EXCEPT !.count = Get(pages, c.key),
                          !.pc = IF c.key \in DOMAIN pages THEN "increment" ELSE "ceiling"])
    /\ UNCHANGED <<pages, mu>> /\ RegistryFrame

\* cfg.pages[normalizedURL] = count + 1; return false, false
Increment(c) ==
    /\ c.pc = "increment"
    /\ pages' = Put(pages, c.key, c.count + 1)
    /\ tasks' = Swap(c, [c EXCEPT !.pc = "unlock"])
    /\ UNCHANGED mu /\ RegistryFrame

\* if len(cfg.pages) >= cfg.maxPages { return false, true }
Ceiling(c) ==
    /\ c.pc = "ceiling"
    /\ tasks' = Swap(c, IF AtCeiling(pages, maxPages)
                        THEN [c EXCEPT !.exceedsLimit = TRUE, !.pc = "unlock"]
                        ELSE [c EXCEPT !.pc = "insert"])
    /\ UNCHANGED <<pages, mu>> /\ RegistryFrame

\* cfg.pages[normalizedURL] = 1; return true, false
Insert(c) ==
    /\ c.pc = "insert"
    /\ pages' = Put(pages, c.key, 1)
    /\ tasks' = Swap(c, [c EXCEPT !.isFirst = TRUE, !.pc = "unlock"])
    /\ UNCHANGED mu /\ RegistryFrame

\* The deferred cfg.mu.Unlock()
Unlock(c) ==
    /\ c.pc = "unlock"
    /\ mu' = 0
    /\ tasks' = Swap(c, [c EXCEPT !.pc = "done", !.after = pages])
    /\ UNCHANGED pages /\ RegistryFrame

NextRegistry ==
    \E c \in Live :
        Lock(c) \/ Lookup(c) \/ Increment(c) \/ Ceiling(c) \/ Insert(c) \/ Unlock(c)

SpecRegistry == InitRegistry /\ [][NextRegistry]_vars

\* The callers that have returned, and those between Lock and Unlock.
Returned == {c \in Live : c.pc = "done"}
InCriticalSection == {c \in Live : c.pc \notin {"lock", "done"}}

\* C17: callers of addPageVisit are never between Lock and Unlock together,
\* and every call does to the registry and returns what addPageVisit does
\* in one step on the registry as it was at Lock; of the callers on one
\* URL at most one is told it is first, exactly one when all have returned
\* and the URL is registered now and was not before, and the callers told
\* they are first are no more than maxPages less the pages held before.
C17_CheckAndRegisterAtomic ==
    /\ Cardinality(InCriticalSection) <= 1
    /\ \A c \in Returned :
          LET r == addPageVisit(c.snap, c.key, maxPages)
          IN  c.after = r.pages /\ c.isFirst = r.isFirst /\ c.exceedsLimit = r.exceedsLimit
    /\ \A k \in Keys :
          LET firsts == {c \in Returned : c.key = k /\ c.isFirst}
          IN  /\ Cardinality(firsts) <= 1
              /\ (Returned = Live /\ k \in DOMAIN pages \ DOMAIN args.registry)
                    => Cardinality(firsts) = 1
    /\ Cardinality({c \in Returned : c.isFirst})
          <= maxPages - Cardinality(DOMAIN args.registry)
    /\ Cardinality(DOMAIN pages) <= maxPages

\* C17 happens: all callers have returned; two called on the same new URL
\* and one of them was told it is first, and one caller on another new
\* URL was turned away by the ceiling.
C17_Witness ==
    /\ Returned = Live
    /\ \E c1, c2 \in Live :
          /\ c1.id /= c2.id /\ c1.key = c2.key /\ c1.key \notin DOMAIN args.registry
          /\ c1.isFirst /\ ~c2.isFirst /\ ~c2.exceedsLimit
    /\ \E c \in Live : c.exceedsLimit

\* The calls that found maxPages pages in the registry when they took cfg.mu.
FoundCeiling == {c \in Returned : Cardinality(DOMAIN c.snap) >= maxPages}

\* C18 (as amended): a call of addPageVisit that finds maxPages pages in the
\* registry returns "ceiling reached" and leaves the registry as it found
\* it when its URL is not registered; when its URL is registered it adds
\* one to that URL's count, changes nothing else, and returns neither
\* "first" nor "ceiling reached".
C18_CeilingRejectsNewOnly ==
    \A c \in FoundCeiling :
        IF c.key \in DOMAIN c.snap
        THEN /\ ~c.exceedsLimit /\ ~c.isFirst
             /\ c.after = Put(c.snap, c.key, c.snap[c.key] + 1)
        ELSE /\ c.exceedsLimit /\ ~c.isFirst
             /\ c.after = c.snap

\* C18 happens: at the ceiling one call for a registered URL has returned
\* and one call for a URL that is not registered has returned.
C18_Witness ==
    \E c1, c2 \in FoundCeiling :
        /\ c1.key \in DOMAIN c1.snap /\ c1.after /= c1.snap
        /\ c2.key \notin DOMAIN c2.snap /\ c2.exceedsLimit

\* C18 as stated: at the ceiling every call, for a registered URL too,
\* returns "ceiling reached" and leaves the registry as it found it.
C18_Original ==
    \A c \in FoundCeiling : c.exceedsLimit /\ c.after = c.snap

\* The letters of a host in lower case.
LowerLabel(l) == IF l = "EX" THEN "ex" ELSE l
LowerHost(h) == [n \in DOMAIN h |-> LowerLabel(h[n])]

\* One of the two is the other with one "www." before it.
OneWWWApart(h1, h2) == h2 = <<"www">> \o h1 \/ h1 = <<"www">> \o h2
\* One of the two is the other with one "/" after it.
OneSlashApart(p1, p2) == p2 = p1 \o <<"">> \/ p1 = p2 \o <<"">>
EndsInSlash(p) == Len(p) > 0 /\ p[Len(p)] = ""
StartsWithWWW(h) == Len(h) > 1 /\ Head(h) = "www"

\* C13, as amended: the key is the host less one leading "www.", if it has
\* one, and the path less one trailing "/", if it has one; two URLs of the
\* same host and path get the same key whatever their scheme, query and
\* fragment; a URL and the same URL with "www." before a host that does not
\* begin with "www." already, or with "/" after a path that does not end in
\* "/" already, get the same key.
C13_NormalizeKey ==
    rets /= <<>> =>
        LET u1 == args[1]  u2 == args[2]  k1 == rets[1]  k2 == rets[2]
        IN  /\ k1.host = (IF StartsWithWWW(u1.host) THEN Tail(u1.host) ELSE u1.host)
            /\ IF EndsInSlash(u1.path) THEN k1.path \o <<"">> = u1.path ELSE k1.path = u1.path
            /\ (u1.host = u2.host /\ u1.path = u2.path) => k1 = k2
            /\ (u2.host = <<"www">> \o u1.host /\ ~StartsWithWWW(u1.host)) => k1.host = k2.host
            /\ (u2.path = u1.path \o <<"">> /\ ~EndsInSlash(u1.path)) => k1.path = k2.path

\* C13 happens: https://www.ex.com/a/?q=1#s and http://ex.com/a have been
\* normalized, to the same key.
C13_Witness ==
    /\ rets /= <<>> /\ rets[1] = rets[2]
    /\ args[1] = [ok |-> TRUE, scheme |-> "https", host |-> <<"www", "ex", "com">>,
                   path |-> <<"a", "">>, query |-> "q=1", frag |-> "s"]
    /\ args[2] = [ok |-> TRUE, scheme |-> "http", host |-> <<"ex", "com">>,
                   path |-> <<"a">>, query |-> "", frag |-> ""]

\* C13 as stated: any two URLs that differ only in scheme, in a "www."
\* prefix, in one trailing slash, in query or in fragment get the same key.
C13_Original ==
    rets /= <<>> =>
        LET u1 == args[1]  u2 == args[2]
        IN  (/\ u1.host = u2.host \/ OneWWWApart(u1.host, u2.host)
             /\ u1.path = u2.path \/ OneSlashApart(u1.path, u2.path))
            => rets[1] = rets[2]

\* C14: two URLs whose hosts differ only in the case of their letters, and
\* which differ in nothing else but what normalizeURL drops, get the same
\* key.
C14_HostCaseFolded ==
    rets /= <<>> =>
        LET u1 == args[1]  u2 == args[2]
        IN  (/\ LowerHost(TrimWWW(u1.host)) = LowerHost(TrimWWW(u2.host))
             /\ TrimSlash(u1.path) = TrimSlash(u2.path))
            => rets[1] = rets[2]

\* The crawl of scenario "dup" is complete: the seed was fetched, nothing
\* cancelled the run, the ceiling left room for the seed, /a and /b, and
\* every task has returned.
CompletedDup ==
    /\ scen = "dup" /\ maxPages >= 3
    /\ Quiesced /\ ~cancelled
    /\ Abs(PageA).url \in DOMAIN discovered

\* C15, as amended: after a completed crawl of a seed page that links to
\* /a, /b and /a again, x.com/a and x.com/b are registered and the count of
\* x.com/a is exactly 1, the extractor listing a URL once per page; at no
\* moment of the crawl is it more.
C15_DuplicateLinkCountedOnce ==
    /\ Get(pages, normalizeURL(PageA)) <= 1
    /\ CompletedDup =>
          /\ Get(pages, normalizeURL(PageA)) = 1
          /\ Get(pages, normalizeURL(PageB)) = 1

\* C15 happens: the crawl is complete, the report is out and the registry
\* holds the seed, /a and /b.
C15_Witness ==
    /\ CompletedDup /\ pcMain = "reported"
    /\ DOMAIN pages = {normalizeURL(Seed), normalizeURL(PageA), normalizeURL(PageB)}

\* C15 as stated: after the completed crawl x.com/a and x.com/b are
\* registered and the count of x.com/a is at least 2.
C15_Original ==
    CompletedDup =>
        /\ Get(pages, normalizeURL(PageA)) >= 2
        /\ Get(pages, normalizeURL(PageB)) >= 1

\* C16: in a run that is never cancelled every task returns and the
\* counter of cfg.wg reaches zero, whatever maxConcurrency is.
C16_UncancelledDrains == <>(cancelled \/ Quiesced)

\* C16 happens: with one slot only, the seed and the page it links to have
\* both been fetched, nothing was cancelled and every task has returned.
C16_Witness ==
    /\ maxConcurrency = 1 /\ ~cancelled /\ Quiesced
    /\ totalRequests >= 2 /\ Cardinality(DOMAIN fetchInit) >= 2

\* C11: a task whose call of the fetch operation has returned an error that
\* is not classed retryable makes no further call of it.
C11_TerminalNotRetried ==
    \A t \in Live : t.termAt > 0 => t.calls = t.termAt

\* C12: the failure counter of a host appears with its first failure, at 1,
\* is never deleted and never decreases, and a host that shouldSkipHost has
\* reported tripped is reported tripped in every later state.
C12_CounterMonotone ==
    [][/\ \A h \in DOMAIN hostErrors :
             /\ h \in DOMAIN hostErrors' /\ hostErrors'[h] >= hostErrors[h]
             /\ shouldSkipHost(hostErrors, h) => shouldSkipHost(hostErrors', h)
       /\ \A h \in DOMAIN hostErrors' \ DOMAIN hostErrors :
             hostErrors'[h] = 1 /\ failedRequests' = failedRequests + 1]_vars

\* C12 happens: the seed's host has tripped and a task holding a slot is
\* about to ask shouldSkipHost.
C12_Witness ==
    /\ shouldSkipHost(hostErrors, Hostname(Seed))
    /\ \E t \in Live : t.pc = "check"

\* C19: a registered page's count is the number of visit tasks with its key
\* that have reached addPageVisit, whether the registry was full or not;
\* exactly one of them initiated a fetch; a task that found its page
\* registered has called the fetch operation no times and goes on to
\* release its slot; and no visit after the first registered a page the
\* ceiling had turned away.
C19_CountIsVisits ==
    /\ \A k \in DOMAIN pages : pages[k] = Get(visits, k) /\ Get(fetchInit, k) = 1
    /\ \A k \in DOMAIN visits : k \notin DOMAIN pages => Get(fetchInit, k) = 0
    /\ \A t \in Live : t.visit = "dup" =>
          /\ t.calls = 0 /\ t.res = "none"
          /\ t.pc \in {"release", "wgDone"}

\* C19 happens: the registry is full with the seed and x.com/a, and
\* x.com/a, discovered twice, has count 2: the second discovery found the
\* registry full.
C19_Witness ==
    /\ maxPages = 2 /\ Cardinality(DOMAIN pages) = maxPages
    /\ Get(pages, normalizeURL(PageA)) = 2
    /\ \E t \in Live : t.visit = "dup" /\ normalizeURL(t.url) = normalizeURL(PageA)
\* The children a parent has registered with cfg.wg.Add(1) and not spawned
\* yet.
Registered == {t \in Live : t.pc = "spawnCheck"}
NumRegistered == BagCardinality([t \in Registered |-> CopiesIn(t, tasks)])

\* C20: the counter of cfg.wg is the number of crawlPage goroutines
\* spawned and not yet gone plus the children registered and not yet
\* spawned; it is never negative, and never zero while a goroutine is live.
C20_CounterIsOutstanding ==
    /\ wg = BagCardinality(tasks) + NumRegistered
    /\ wg >= 0
    /\ tasks /= EmptyBag => wg > 0

\* C20 happens: a parent has registered a child it has not spawned yet
\* while a child it spawned before has not started.
C20_Witness ==
    \E p \in Registered : \E c \in Live :
        /\ c.pc = "start" /\ c.parent = normalizeURL(p.url)
        /\ wg = 3
\* C21: a step in which a task that has not passed its entry check ends
\* while the run is cancelled takes one from the counter of cfg.wg and
\* leaves the slots, cfg.pages, cfg.externalLinks, cfg.hostErrors and the
\* statistics as they are; and no such task goes on to the semaphore.
C21_CancelledAtEntry ==
    [][\A t \in Live : (t.pc = "start" /\ cancelled) =>
          /\ tasks' = Drop(t) => (wg' = wg - 1 /\ sem' = sem /\ regVars' = regVars)
          /\ tasks' /= Swap(t, [t EXCEPT !.pc = "acquire"])]_vars

\* C21 happens: the run is cancelled, the seed has spawned its first child
\* and is the only task left, and no task has reached addPageVisit for the
\* child's page: the child ended at its entry check.
C21_Witness ==
    /\ cancelled /\ wg = 1 /\ totalRequests = 1 /\ failedRequests = 0
    /\ \E t \in Live :
          /\ Live = {t} /\ t.url = Seed /\ t.res = "ok" /\ t.pc = "release"
          /\ t.j >= 1 /\ Get(visits, normalizeURL(t.urls[1])) = 0
\* C22: once the run is cancelled no task takes a slot: a task that waits
\* in the send on cfg.concurrencyControl returns without one.
C22_NoSlotAfterCancel ==
    [][cancelled => /\ sem' <= sem
                    /\ \A t \in Live : t.pc = "acquire" =>
                          tasks' /= Swap(t, [t EXCEPT !.pc = "check"])]_vars
\* C23: the slots held are the tasks between the send on
\* cfg.concurrencyControl and the receive of the deferred function; a task
\* past its entry check ends only by the deferred function, whose receive
\* frees one slot and leaves the counter of cfg.wg alone, and whose
\* wg.Done, the task's last step, takes one from the counter and leaves
\* the slots alone.
C23_SlotReleasedOnce ==
    /\ [](sem = SlotHolders /\ \A t \in Live : t.pc = "wgDone" => wg > 0)
    /\ [][\A t \in Live :
            /\ t.pc \notin {"start", "wgDone"} => tasks' /= Drop(t)
            /\ (t.pc = "release" /\ tasks' = Swap(t, [t EXCEPT !.pc = "wgDone"]))
                  => (sem' = sem - 1 /\ wg' = wg)
            /\ (t.pc = "wgDone" /\ tasks' = Drop(t))
                  => (wg' = wg - 1 /\ sem' = sem)]_vars

\* C23 happens: a task whose link extraction failed has released its slot
\* and not yet called wg.Done, a task that found its page registered is
\* about to release, and a third holds a slot.
C23_Witness ==
    /\ \E t \in Live : t.pc = "wgDone" /\ t.res = "extractErr"
    /\ \E t \in Live : t.pc = "release" /\ t.visit = "dup"
    /\ sem = 2
\* C24: a task that is in the backoff select of retryWithBackoff when the
\* run is cancelled can only return the context's error, with no further
\* call of the fetch operation; and a retryWithBackoff that returned the
\* context's error has called the operation once before each wait it
\* completed and once before the wait it left.
C24_BackoffAborts ==
    /\ [](\A t \in Live : t.res = "ctx" =>
             /\ t.calls = t.waits + 1 /\ t.calls <= maxRetries
             /\ t.pc \in {"release", "wgDone"})
    /\ [][\A t \in Live : (t.pc = "backoff" /\ cancelled) =>
            \A t2 \in BagToSet(tasks') :
                (t2 /= t /\ tasks' = Swap(t, t2)) =>
                    (t2.res = "ctx" /\ t2.calls = t.calls /\ t2.pc = "release")]_vars

\* C24 happens: a fetch began before the run was cancelled, and its
\* retryWithBackoff has returned the context's error out of a backoff.
C24_Witness ==
    cancelled /\ \E t \in Live : t.res = "ctx" /\ ~t.dead /\ t.calls = 2
(***************************************************************************)
(* CalculateBackoffDelay and calculateBackoffDelay called on their own.    *)
(* A time.Duration is an int64 of nanoseconds; the model counts in units   *)
(* of 2^40 ns, which leaves the int64 DurationBits bits, and takes         *)
(* durations that are whole units, so that float64 holds them exactly.     *)
(***************************************************************************)
MaxAttempt == 12
attemptCap == 10
DurationBits == 24

RECURSIVE Pow2(_)
Pow2(n) == IF n <= 0 THEN 1 ELSE 2 * Pow2(n - 1)

MaxDuration == Pow2(DurationBits - 1) - 1
MinDuration == 0 - Pow2(DurationBits - 1)

\* time.Duration(f) for a float64 f: the value if an int64 holds it, and
\* otherwise what the build makes of it, the least int64 on amd64 and the
\* greatest on arm64.
ToDuration(f) == IF f <= MaxDuration THEN {f} ELSE {MinDuration, MaxDuration}

\* if delay > maxDelay { return maxDelay }; return delay
CapDelay(delay, maxDelay) == IF delay > maxDelay THEN maxDelay ELSE delay

\* CalculateBackoffDelay, which retryWithBackoff calls: the delays it may
\* return.
CalculateBackoffDelay(attempt, baseDelay, maxDelay) ==
    IF attempt <= 0 THEN {0}
    ELSE LET multiplier == Pow2(Min(attempt, attemptCap) - 1)
         IN  {CapDelay(delay, maxDelay) : delay \in ToDuration(baseDelay * multiplier)}

\* calculateBackoffDelay, which getHTMLWithContext calls: it compares the
\* multiplier with maxDelay/baseDelay before it multiplies.
calculateBackoffDelay(attempt, baseDelay, maxDelay) ==
    IF attempt <= 0 THEN {0}
    ELSE LET multiplier == Pow2(Min(attempt, attemptCap) - 1)
         IN  IF multiplier > maxDelay \div baseDelay THEN {maxDelay}
             ELSE {CapDelay(delay, maxDelay) : delay \in ToDuration(baseDelay * multiplier)}

Attempts == (0 - 1)..MaxAttempt
BaseDelays == {1, 3, Pow2(DurationBits - attemptCap)}
MaxDelays == {2, 30, Pow2(DurationBits - 2)}

InitBackoff ==
    /\ NoRun /\ mu = 0 /\ rets = <<>>
    /\ args \in [attempt : Attempts, later : Attempts,
                  baseDelay : BaseDelays, maxDelay : MaxDelays]

\* Both functions called for both attempts.
CallBackoff ==
    /\ rets = <<>>
    /\ rets' \in [upper : [{args.attempt, args.later} ->
                              UNION {CalculateBackoffDelay(a, args.baseDelay, args.maxDelay) :
                                        a \in {args.attempt, args.later}}],
                   lower : [{args.attempt, args.later} ->
                              UNION {calculateBackoffDelay(a, args.baseDelay, args.maxDelay) :
                                        a \in {args.attempt, args.later}}]]
    /\ \A a \in {args.attempt, args.later} :
          /\ rets'.upper[a] \in CalculateBackoffDelay(a, args.baseDelay, args.maxDelay)
          /\ rets'.lower[a] \in calculateBackoffDelay(a, args.baseDelay, args.maxDelay)
    /\ UNCHANGED <<scen, maxPages, maxConcurrency, batchSize, args, mu, regVars,
                   ctlVars, histVars, sem, wg, cancelled, tasks>>

SpecBackoff == InitBackoff /\ [][CallBackoff]_vars

\* min(baseDelay * 2^(min(attempt, 10) - 1), maxDelay), and 0 for
\* attempt <= 0.
ExpectedDelay(attempt, baseDelay, maxDelay) ==
    IF attempt <= 0 THEN 0
    ELSE Min(baseDelay * Pow2(Min(attempt, attemptCap) - 1), maxDelay)

\* What is stated of one of the two functions, given what it returned.
DelayAsStated(ret) ==
    /\ \A a \in DOMAIN ret :
          /\ ret[a] = ExpectedDelay(a, args.baseDelay, args.maxDelay)
          /\ ret[a] <= args.maxDelay
    /\ \A a, b \in DOMAIN ret : a <= b => ret[a] <= ret[b]

\* C25: the delay is 0 for attempt <= 0 and otherwise
\* min(baseDelay * 2^(min(attempt, 10) - 1), maxDelay); it is at most
\* maxDelay and does not decrease as attempt grows.
C25_BackoffDelay ==
    rets /= <<>> => DelayAsStated(rets.upper) /\ DelayAsStated(rets.lower)
FetchEnds(t, t2) ==
    /\ t.pc \in {"fetching", "backoff"}
    /\ t2.url = t.url /\ t2.res /= "none"
    /\ tasks' = Swap(t, t2)

\* C27: the step in which a fetch ends in failure, with the retries
\* exhausted or the context done, adds one to the failures of the page's
\* host and to no other host, one to the requests and one to the failed
\* requests, and leaves the task with no links and at its release; the
\* step in which a fetch succeeds adds one to the requests alone and
\* leaves the host failures as they are.  A task whose fetch has ended
\* has called incrementStats once, and incrementHostError once if and
\* only if the fetch failed.
C27_FetchOutcomeCounted ==
    /\ [](\A t \in Live : t.res /= "none" =>
             /\ t.stats = 1
             /\ t.res \in {"exhausted", "ctx"} =>
                   (t.fails = 1 /\ t.herrs = 1 /\ t.urls = <<>>
                      /\ t.pc \in {"release", "wgDone"})
             /\ t.res \in {"ok", "extractErr"} => (t.fails = 0 /\ t.herrs = 0))
    /\ [][\A t \in Live : \A t2 \in BagToSet(tasks') : FetchEnds(t, t2) =>
            /\ totalRequests' = totalRequests + 1
            /\ pages' = pages /\ externalLinks' = externalLinks
            /\ IF t2.res \in {"exhausted", "ctx"}
               THEN /\ failedRequests' = failedRequests + 1
                    /\ hostErrors' = Put(hostErrors, Hostname(t.url),
                                         Get(hostErrors, Hostname(t.url)) + 1)
                    /\ t2.pc = "release" /\ t2.urls = <<>> /\ wg' = wg
               ELSE /\ failedRequests' = failedRequests
                    /\ hostErrors' = hostErrors]_vars

\* C27 happens: the fetches of two registered pages have succeeded, and
\* the fetch of a third, which met an error that is not retryable, has
\* failed and is counted against its host.
C27_Witness ==
    /\ \E t \in Live : t.res = "exhausted" /\ t.termAt > 0 /\ t.herrs = 1
    /\ Cardinality(fetchedOK) = 2 /\ Get(hostErrors, XCom) = 1
    /\ totalRequests = 3 /\ failedRequests = 1
\* The host of task t has failed maxErrorsPerHost times.
Tripped(t) == Get(hostErrors, Hostname(t.url)) >= maxErrorsPerHost

\* A task the breaker has turned away: it has counted a failed request and
\* no host error, and has not reached addPageVisit.
TurnedAway(t) == t.stats = 1 /\ t.fails = 1 /\ t.herrs = 0 /\ t.visit = "none"

\* C28: a task that comes to the breaker test when its host is tripped can
\* only count one failed request and go to its release, leaving cfg.pages,
\* cfg.externalLinks, cfg.hostErrors, the fetches and the counter of cfg.wg
\* as they are; a task so turned away has called the fetch operation no
\* times and has no links.
C28_TrippedHostSkipped ==
    /\ [](\A t \in Live : TurnedAway(t) =>
             /\ t.calls = 0 /\ t.urls = <<>> /\ t.res = "none"
             /\ t.pc \in {"release", "wgDone"})
    /\ [][\A t \in Live : (t.pc = "check" /\ Tripped(t)) =>
            \A t2 \in BagToSet(tasks') : (t2 /= t /\ tasks' = Swap(t, t2)) =>
                /\ TurnedAway(t2) /\ t2.pc = "release"
                /\ totalRequests' = totalRequests + 1
                /\ failedRequests' = failedRequests + 1
                /\ pages' = pages /\ externalLinks' = externalLinks
                /\ hostErrors' = hostErrors
                /\ fetchInit' = fetchInit /\ opCalls' = opCalls
                /\ wg' = wg]_vars

\* C28 happens: the seed's host is tripped and a task has been turned
\* away.
C28_Witness ==
    \E t \in Live : Tripped(t) /\ TurnedAway(t) /\ t.pc = "release"
\* C29: a task whose link extraction failed has counted one request and no
\* failed request and no host error, has no links and goes to its release
\* with no child registered or spawned; its page is registered and counted
\* as fetched; and the step in which the extraction fails leaves
\* cfg.pages, cfg.hostErrors, the failed requests and the counter of
\* cfg.wg as they are.
C29_ExtractionFailureLocal ==
    /\ [](\A t \in Live : t.res = "extractErr" =>
             /\ t.stats = 1 /\ t.fails = 0 /\ t.herrs = 0
             /\ t.urls = <<>> /\ t.pc \in {"release", "wgDone"}
             /\ normalizeURL(t.url) \in DOMAIN pages
             /\ normalizeURL(t.url) \in fetchedOK)
    /\ [][\A t \in Live : \A t2 \in BagToSet(tasks') :
            (FetchEnds(t, t2) /\ t2.res = "extractErr") =>
                /\ totalRequests' = totalRequests + 1
                /\ failedRequests' = failedRequests
                /\ hostErrors' = hostErrors /\ pages' = pages
                /\ discovered' = discovered /\ wg' = wg
                /\ BagCardinality(tasks') = BagCardinality(tasks)]_vars

\* C29 happens: the extraction of a fetched page has failed, with no host
\* error in the run, while other tasks are live.
C29_Witness ==
    /\ \E t \in Live : t.res = "extractErr" /\ t.pc = "wgDone"
    /\ hostErrors = EmptyMap /\ failedRequests = 0 /\ totalRequests = 2
    /\ BagCardinality(tasks) >= 2
\* Task t counts a failure in this step and is left as t2.
Fails(t, t2) == tasks' = Swap(t, t2) /\ t2.fails = t.fails + 1

\* No step of a task cancels the run, and the step in which a task counts
\* a failure leaves every other task, the slots, the counter of cfg.wg and
\* cfg.pages as they are.
FailureLocal ==
    [][/\ cancelled' /= cancelled => tasks' = tasks
       /\ \A t \in Live : \A t2 \in BagToSet(tasks') : Fails(t, t2) =>
             /\ cancelled' = cancelled /\ done' = done
             /\ wg' = wg /\ sem' = sem /\ pages' = pages
             /\ t2.pc = "release"]_vars

\* The next step of task t.
TaskStep(t) ==
    \/ TaskStart(t) \/ Acquire(t) \/ Check(t) \/ External(t) \/ Register(t)
    \/ FetchReturn(t) \/ Backoff(t) \/ SpawnAdd(t) \/ SpawnCheck(t)
    \/ Release(t) \/ WgDone(t)

\* Task t can take its next step, or waits for a slot that a live task
\* holds and will release.
CanGoOn(t) ==
    IF t.pc = "acquire" /\ ~CanSend(sem, maxConcurrency)
    THEN \E h \in Live : HoldsSlot(h)
    ELSE ENABLED TaskStep(t)

Links(u) == CapURLs(getURLsFromHTML(Html(scen, u), Seed))

\* The task has fetched its page and is through its scheduling loop, which
\* no cancellation cut short.
LoopOver(t) == t.res = "ok" /\ t.pc \in {"release", "wgDone"} /\ ~t.stopped

\* C31: the list a task schedules is the capped list of the extractor,
\* whatever cfg.batchSize is; the children it has spawned so far are the
\* first links of that list, in order, one for each; and when the loop ends
\* without cancellation it has registered and spawned one child for every
\* link of the list.
C31_EveryLinkScheduledOnce ==
    \A t \in Live :
        /\ t.res = "ok" => t.urls = Links(t.url)
        /\ Len(t.spawned) <= Len(t.urls)
        /\ t.spawned = SubSeq(t.urls, 1, Len(t.spawned))
        /\ LoopOver(t) => t.spawned = t.urls /\ t.adds = Len(t.urls) /\ t.undone = 0

\* C31 happens: a loop over three links in batches of two, the last batch
\* of one link, has ended in a run that is not cancelled.
C31_Witness ==
    /\ ~cancelled /\ batchSize = 2
    /\ \E t \in Live : LoopOver(t) /\ Len(t.urls) = 3 /\ t.spawned = t.urls

\* The children of a page that are spawned and have not returned yet.
ChildrenOf(k) == {c \in Live : c.parent = k}
NumChildren(k) == BagCardinality([c \in ChildrenOf(k) |-> CopiesIn(c, tasks)])

\* C32: at any moment the children one page has spawned and that have not
\* completed are at most cfg.batchSize.
C32_BurstBounded ==
    \A t \in Live : NumChildren(normalizeURL(t.url)) <= batchSize

\* A step of task t at the cancellation check of the scheduling loop.
AtSpawnCheck(t) == t.pc = "spawnCheck" /\ TaskStep(t)

\* C33: a parent registers a child with the counter of cfg.wg before it
\* looks at cfg.ctx for that child; when it finds cfg.ctx done, the step
\* takes the registration back, spawns nothing and ends the loop, so that
\* the counter has moved by nothing for that link and no later link of the
\* page is scheduled.
C33_RegistrationUndone ==
    /\ [](\A t \in Live :
            /\ t.pc = "spawnCheck" => t.adds = Len(t.spawned) + 1 /\ t.undone = 0
            /\ t.pc \in {"spawnAdd", "release", "wgDone"} =>
                  t.adds - t.undone = Len(t.spawned)
            /\ t.stopped =>
                  /\ t.pc \in {"release", "wgDone"} /\ t.undone = 1
                  /\ Len(t.spawned) < Len(t.urls))
    /\ [][\A t \in Live :
            (AtSpawnCheck(t) /\ cancelled) =>
                /\ wg' = wg - 1
                /\ scheduled' = scheduled
                /\ \E t2 \in BagToSet(tasks') :
                      /\ tasks' = Swap(t, t2)
                      /\ t2.pc = "release" /\ t2.spawned = t.spawned]_vars

\* C33 happens: a parent with two links was stopped by the cancellation
\* after it had spawned the first, whose task is still there.
C33_Witness ==
    \E t \in Live :
        /\ t.stopped /\ Len(t.spawned) = 1 /\ Len(t.urls) >= 2 /\ t.adds = 2
        /\ NumChildren(normalizeURL(t.url)) = 1

(***************************************************************************)
(* getURLsFromHTML and the cap of crawlPage called on their own, on short  *)
(* pages of every kind of anchor and on pages around maxURLsPerPage links. *)
(***************************************************************************)
MaxAnchors == 3
MaxBeyond == 2

\* A base with a path and a fragment of its own.
BaseB == [PageB EXCEPT !.frag = "top"]
Bases == {Seed, BaseB}

Anchors ==
    {Abs(PageA), Rel(<<"a">>), Abs(ExtE), EmptyHref, Frag("s"), BadHref,
     Href("hash"), Href("mailto"), Href("tel"), Href("javascript"), Href("data"),
     Href("nohref"), Deep(Abs(PageB))}

ShortPages == UNION {[1..n -> Anchors] : n \in 0..MaxAnchors}

\* A page of n links /p/1 ... /p/n, the second of which may repeat the first.
Link(k) == URL("https", XCom, <<"p", ToString(k)>>)
LongPage(n, dup) == [k \in 1..n |-> Abs(Link(IF dup /\ k = 2 THEN 1 ELSE k))]
LongPages ==
    {LongPage(n, dup) : n \in (maxURLsPerPage - 1)..(maxURLsPerPage + MaxBeyond),
                        dup \in BOOLEAN}

InitExtract ==
    /\ NoRun /\ mu = 0 /\ rets = <<>>
    /\ \/ args \in [base : Bases, anchors : ShortPages]
       \/ args \in [base : {Seed}, anchors : LongPages]

\* urls, err := getURLsFromHTML(htmlBody, base); the cap of crawlPage.
CallExtract ==
    /\ rets = <<>>
    /\ LET extracted == getURLsFromHTML(args.anchors, args.base)
       IN  rets' = [extracted |-> extracted, urls |-> CapURLs(extracted)]
    /\ UNCHANGED <<scen, maxPages, maxConcurrency, batchSize, args, mu, regVars,
                   ctlVars, histVars, sem, wg, cancelled, tasks>>

SpecExtract == InitExtract /\ [][CallExtract]_vars

\* The call has returned.
Extracted == rets /= <<>>

\* The anchor is one the extractor is to list: within the depth traverse
\* descends to, with an href that is none of "#", mailto:, tel:,
\* javascript:, data:, and that url.Parse accepts.
Listable(h) ==
    /\ h.depth <= maxTraversalDepth
    /\ h.kind \in {"abs", "rel", "frag", "empty"}
    /\ h.url.ok

\* The same without the limit of depth.
ListableAsStated(h) == h.kind \in {"abs", "rel", "frag", "empty"} /\ h.url.ok

\* The absolute form of anchor k of the page.
Resolved(k) == ResolveReference(args.base, args.anchors[k])

\* The anchors that are the first of the page with their absolute form,
\* among those of indices in ks, and the place of one among them.
Firsts(ks) == {k \in ks : \A m \in ks : m < k => Resolved(m) /= Resolved(k)}
Rank(fs, k) == Cardinality({m \in fs : m <= k})

\* urls is the list of the absolute forms of the anchors fs, in the order
\* of the page, up to limit of them.
ListsInOrder(urls, fs, limit) ==
    /\ Len(urls) = Min(Cardinality(fs), limit)
    /\ \A k \in fs : Rank(fs, k) <= limit => urls[Rank(fs, k)] = Resolved(k)

\* C34: the extractor returns at most maxURLsPerPage links and crawlPage
\* keeps at most maxURLsPerPage of them to schedule; a link whose first
\* anchor comes after maxURLsPerPage different links is in neither list.
C34_LinksCapped ==
    Extracted =>
        LET fs == Firsts({k \in DOMAIN args.anchors : Listable(args.anchors[k])})
        IN  /\ Len(rets.extracted) <= maxURLsPerPage
            /\ Len(rets.urls) <= maxURLsPerPage
            /\ \A k \in fs : Rank(fs, k) > maxURLsPerPage =>
                  \A n \in DOMAIN rets.extracted : rets.extracted[n] /= Resolved(k)
            /\ \A n \in DOMAIN rets.urls : rets.urls[n] = rets.extracted[n]

\* C34 happens: a page of two links more than maxURLsPerPage, all
\* different, has given maxURLsPerPage links, the last two not among them.
C34_Witness ==
    /\ Extracted
    /\ Len(args.anchors) = maxURLsPerPage + 2
    /\ Len(rets.urls) = maxURLsPerPage
    /\ rets.urls[maxURLsPerPage] = Link(maxURLsPerPage)
    /\ \A n \in DOMAIN rets.urls : rets.urls[n] /= Link(maxURLsPerPage + 1)

CanMutate(t) == t.pc \notin {"release", "wgDone"}

\* C36: while main reads the counters and the registries for the report,
\* on whichever path it came there, no crawlPage goroutine is left that
\* can still write them.
C36_ReadAfterQuiescence ==
    pcMain \in {"stats", "report"} => \A t \in Live : ~CanMutate(t)

\* The fetches initiated so far, over all pages.
TotalFetches == SumOver(fetchInit, DOMAIN fetchInit)

\* A URL of the page with key k.
PageOf(k) == [Seed EXCEPT !.host = k.host, !.path = k.path]

\* The links of the pages fetched so far, each page's list capped.
LinksOfFetched == SumOver([k \in fetchedOK |-> Len(Links(PageOf(k)))], fetchedOK)

\* C37: the fetches initiated are at most maxPages; the goroutines started
\* are at most the seed's and one for each link of each page fetched, each
\* page giving at most maxURLsPerPage links, hence at most
\* 1 + maxPages * maxURLsPerPage; and the counter of cfg.wg is never more
\* than the goroutines started and the one child being registered by each
\* of them.
C37_GrowthBounded ==
    /\ TotalFetches <= maxPages
    /\ Cardinality(fetchedOK) <= TotalFetches
    /\ scheduled <= 1 + LinksOfFetched
    /\ \A k \in fetchedOK : Len(Links(PageOf(k))) <= maxURLsPerPage
    /\ scheduled <= 1 + maxPages * maxURLsPerPage
    /\ wg <= scheduled + NumRegistered
    /\ wg <= 1 + maxPages * maxURLsPerPage

\* C37 happens: maxPages fetches have been initiated, all of them have
\* succeeded and every link of every fetched page has its goroutine.
C37_Witness ==
    /\ maxPages = 2 /\ TotalFetches = maxPages /\ Cardinality(fetchedOK) = maxPages
    /\ scheduled = 1 + LinksOfFetched /\ scheduled > 2
    /\ \E t \in Live : t.visit = "limit"

(***************************************************************************)
(* The fetch of one registered page: retryWithBackoff around              *)
(* getHTMLWithContext around performHTTPRequest, statement by statement.   *)
(* The record of the fetch is the one task of the run.                     *)
(***************************************************************************)
maxHTTPRetries == 3

\* httpClient has no CheckRedirect, so net/http follows redirects by its
\* default policy and stops after this many consecutive requests.
defaultMaxRequests == 10

NewFetch ==
    [pc |-> "call", attempt |-> 0, httpAttempt |-> 0, expired |-> FALSE,
     dos |-> 0, gets |-> 0, sawRetryable |-> FALSE, res |-> "none"]

InitFetcher ==
    /\ scen = "none" /\ maxPages = 0 /\ maxConcurrency = 0 /\ batchSize = 0
    /\ args = <<>> /\ rets = <<>> /\ mu = 0
    /\ pages = EmptyMap /\ externalLinks = EmptyMap /\ hostErrors = EmptyMap
    /\ totalRequests = 0 /\ failedRequests = 0
    /\ sem = 0 /\ wg = 0
    /\ cancelled = FALSE /\ done = FALSE
    /\ pcMain = "none" /\ outcome = "none"
    /\ tasks = SetToBag({NewFetch})
    /\ fetchInit = EmptyMap /\ discovered = EmptyMap /\ opCalls = 0
    /\ visits = EmptyMap /\ fetchedOK = {} /\ scheduled = 0

FetcherFrame ==
    UNCHANGED <<cfgVars, regVars, ctlVars, histVars, sem, wg, cancelled>>

\* requestCtx, the child of cfg.ctx with the 30 seconds, is done.
RequestCtxDone(f) == cancelled \/ f.expired

\* A faulty loop test of getHTMLWithContext, with one attempt more.
MoreHTTPAttemptsOneTooMany(attempt) == attempt + 1 <= maxHTTPRetries + 1

\* The loop test of getHTMLWithContext after attempt++.
MoreHTTPAttempts(attempt) == attempt + 1 <= maxHTTPRetries

\* operation() has returned an error to retryWithBackoff: lastErr = err;
\* continue.
OperationFailed(f) ==
    IF MoreAttempts(f.attempt)
    THEN [f EXCEPT !.attempt = f.attempt + 1, !.pc = "wait"]
    ELSE [f EXCEPT !.attempt = f.attempt + 1, !.pc = "end", !.res = "exhausted"]

\* performHTTPRequest has returned an error to getHTMLWithContext.
RequestFailed(f, isRetryable) ==
    IF ~isRetryable THEN OperationFailed(f)
    ELSE IF MoreHTTPAttempts(f.httpAttempt)
    THEN [f EXCEPT !.httpAttempt = f.httpAttempt + 1, !.sawRetryable = TRUE,
                   !.pc = "httpWait"]
    ELSE OperationFailed([f EXCEPT !.httpAttempt = f.httpAttempt + 1,
                                   !.sawRetryable = TRUE])

\* The 30 seconds of requestCtx are over.
Deadline(f) ==
    /\ f.pc /= "end" /\ ~f.expired
    /\ tasks' = Swap(f, [f EXCEPT !.expired = TRUE])
    /\ FetcherFrame

\* The select of retryWithBackoff before attempts 1..maxRetries.
FetchWait(f) ==
    /\ f.pc = "wait"
    /\ tasks' = Swap(f, IF ctxDone(cancelled)
                        THEN [f EXCEPT !.pc = "end", !.res = "ctx"]
                        ELSE [f EXCEPT !.pc = "call"])
    /\ FetcherFrame

\* operation(): getHTMLWithContext starts its loop at attempt 0 and goes to
\* performHTTPRequest without a look at the context.
FetchCall(f) ==
    /\ f.pc = "call"
    /\ tasks' = Swap(f, [f EXCEPT !.httpAttempt = 0, !.pc = "do"])
    /\ FetcherFrame

\* The select of getHTMLWithContext before attempts 1..maxHTTPRetries.
HttpWait(f) ==
    /\ f.pc = "httpWait"
    /\ tasks' = Swap(f, IF RequestCtxDone(f)
                        THEN OperationFailed(f)
                        ELSE [f EXCEPT !.pc = "do"])
    /\ FetcherFrame

\* httpClient.Do(req): with a context that is done it returns an error at
\* once, which is not of the retryable kinds; else the GET goes out.
HttpDo(f) ==
    /\ f.pc = "do"
    /\ tasks' = Swap(f, IF RequestCtxDone(f)
                        THEN RequestFailed([f EXCEPT !.dos = f.dos + 1], FALSE)
                        ELSE [f EXCEPT !.dos = f.dos + 1, !.gets = f.gets + 1,
                                       !.pc = "sent"])
    /\ FetcherFrame

\* What httpClient.Do returns: the client has followed n redirects, each
\* with one more GET, fewer than defaultMaxRequests requests in all, and
\* then has the page or an error, of the retryable kinds or not.  A
\* redirect after defaultMaxRequests requests is an error of the second
\* kind.
HttpAnswer(f) ==
    /\ f.pc = "sent"
    /\ \E n \in 0..(defaultMaxRequests - 1), r \in {"ok", "retryable", "terminal"} :
          LET g == [f EXCEPT !.gets = f.gets + n]
          IN  tasks' = Swap(f,
                  CASE r = "ok" -> [g EXCEPT !.pc = "end", !.res = "ok"]
                    [] r = "retryable" -> RequestFailed(g, TRUE)
                    [] OTHER -> RequestFailed(g, FALSE))
    /\ FetcherFrame

\* cancel() of cfg.ctx, by the signal or by main.
CancelFetch ==
    /\ ~cancelled
    /\ cancelled' = TRUE
    /\ UNCHANGED <<cfgVars, regVars, ctlVars, histVars, sem, wg, tasks>>

NextFetcher ==
    \/ CancelFetch
    \/ \E f \in Live :
          \/ Deadline(f) \/ FetchWait(f) \/ FetchCall(f)
          \/ HttpWait(f) \/ HttpDo(f) \/ HttpAnswer(f)

SpecFetcher == InitFetcher /\ [][NextFetcher]_vars

\* C38, as amended: for one registered page performHTTPRequest is called at
\* most (maxRetries + 1) * (maxHTTPRetries + 1) times, and at most
\* maxRetries + 1 times when no call fails with a retryable error; a call
\* issues at most defaultMaxRequests GET requests, the first and those that
\* follow redirects.
C38_RequestsBounded ==
    \A f \in Live :
        /\ f.dos <= (maxRetries + 1) * (maxHTTPRetries + 1)
        /\ ~f.sawRetryable => f.dos <= maxRetries + 1
        /\ f.gets <= f.dos * defaultMaxRequests

\* C38 happens: sixteen calls have failed, each with a retryable error, and
\* retryWithBackoff has given up.
C38_Witness ==
    \E f \in Live :
        /\ f.res = "exhausted" /\ f.dos = (maxRetries + 1) * (maxHTTPRetries + 1)
        /\ f.sawRetryable /\ f.gets = f.dos

\* C38 as stated: the GET requests for one registered page are at most
\* (maxRetries + 1) * (maxHTTPRetries + 1), and at most maxRetries + 1 when
\* no attempt fails with a retryable error.
C38_Original ==
    \A f \in Live :
        /\ f.gets <= (maxRetries + 1) * (maxHTTPRetries + 1)
        /\ ~f.sawRetryable => f.gets <= maxRetries + 1

\* The discoveries of links of the seed's own host that have key k, the
\* seed task itself counted for the seed's key.
DiscoveredInDomain(k) ==
    SumOver(discovered, {raw \in DOMAIN discovered :
                          Hostname(raw) = Hostname(Seed) /\ normalizeURL(raw) = k})
    + (IF k = normalizeURL(Seed) THEN 1 ELSE 0)

\* The host differs from the seed's by a leading "www." and nothing else.
WWWApartFromSeed(u) ==
    Hostname(u) /= Hostname(Seed) /\ TrimWWW(Hostname(u)) = TrimWWW(Hostname(Seed))

\* C39: every key of the Page Registry has the seed's hostname without its
\* leading "www." as host; a task whose URL has another hostname than the
\* seed's, by the letters, is never taken to the registry nor fetched, and
\* the visits counted for a key are never more than the discoveries of
\* links of the seed's hostname with that key; a URL whose host differs
\* from the seed's by "www." only is counted as an external link under its
\* raw form, once for each discovery when the run ends uncancelled.
C39_DomainByExactHost ==
    /\ \A k \in DOMAIN pages : k.host = TrimWWW(Hostname(Seed))
    /\ \A t \in Live : Hostname(t.url) /= Hostname(Seed) => t.visit = "none" /\ t.calls = 0
    /\ \A k \in DOMAIN visits : visits[k] <= DiscoveredInDomain(k)
    /\ \A raw \in DOMAIN externalLinks : Hostname(raw) /= Hostname(Seed)
    /\ (Quiesced /\ ~cancelled) =>
          \A raw \in DOMAIN discovered :
              WWWApartFromSeed(raw) => Get(externalLinks, raw) = discovered[raw]

\* C39 happens: the run has ended; https://www.x.com/a is counted as an
\* external link, and x.com/a, the key it would have, is in the registry
\* with the one visit of https://x.com/a.
C39_Witness ==
    /\ Quiesced /\ ~cancelled
    /\ Get(externalLinks, WwwA) = 1
    /\ normalizeURL(WwwA) \in DOMAIN pages
    /\ pages[normalizeURL(WwwA)] = 1 /\ Get(fetchInit, normalizeURL(PageA)) = 1

\* The seed's host has reached the threshold of the circuit breaker.
SeedHostTripped == Get(hostErrors, Hostname(Seed)) >= maxErrorsPerHost

\* No failure is counted for a host other than the seed's.
OnlySeedHostCounted ==
    \A h \in DOMAIN hostErrors : h /= Hostname(Seed) => hostErrors[h] = 0

\* C40: failures are counted for the seed's host alone, so the breaker
\* never trips for another host; and from the moment the seed's host is
\* tripped no step registers a page or initiates a fetch.
C40_TrippedSeedStopsCrawl ==
    /\ []OnlySeedHostCounted
    /\ [](\A t \in Live : Tripped(t) => Hostname(t.url) = Hostname(Seed))
    /\ [][SeedHostTripped => pages' = pages /\ fetchInit' = fetchInit]_vars

=============================================================================
